---- MODULE Spec2Model ----
\* Narco Life RPG front end (elxomar/ElxNarco): the character state and the
\* handlers that change it -- character selection, travel, missions, skill
\* upgrades, street trading, inventory -- with the browser storage they write
\* and the component state that decides which handler a click can reach.
\*
\* Four specifications share the variables and the actions:
\*   Spec          a session from the character list through the travel map, the
\*                 missions and the skill tree, click by click (the travel map's
\*                 confirmation modal cannot render, see handleCityClick, so no
\*                 click reaches confirmTravel);
\*   SpecTrade     a session on the streets and in the inventory, click by click;
\*   SpecHandlers  every handler that changes the character, confirmTravel included,
\*                 called once on each of a set of saved characters and component
\*                 states;
\*   SpecRate      the skill tree walked from level 1 to 20 in every skill, for the
\*                 properties of calculateSuccessRate over all skill levels.
\*
\* Numbers: cash, xp, health and stamina are the integers the code computes.
\* A probability is kept exact as a numerator over the denominator
\* 100 * totalRequirement (successRate is a whole number of percent), so the
\* comparisons of calculateSuccessRate and attemptMission are decided without
\* rounding.
EXTENDS Integers, Sequences, FiniteSets, TLC

VARIABLES
    roster,      \* localStorage characters_<username>: the account's saved characters
    stored,      \* localStorage currentCharacter
    character,   \* App state currentCharacter
    ui,          \* the mounted route and its component state
    pending,     \* setTimeout callbacks of the Missions component not yet run
    alertMsg,    \* the alert() of the latest handler, "none" when it raised none
    budget       \* gameplay actions the exploration may still apply

vars == <<roster, stored, character, ui, pending, alertMsg, budget>>

----------------------------------------------------------------------------
\* Bounds of the exploration

\* Gameplay actions (mission attempt, upgrade) explored per behaviour of Spec.
MaxSteps == 4

\* Gameplay actions (buy, sell, use, drop) explored per behaviour of SpecTrade.
MaxTrades == 1

\* Gameplay actions (buy, sell, use, drop) explored per behaviour of SpecStock.
MaxStock == 2

\* Creations and mission attempts explored per behaviour of SpecAccount.
MaxAccount == 2

\* Math.random() is drawn from k / RollSteps, k in 0 .. RollSteps - 1.
RollSteps == 20

\* Quotes of one city that may draw a fluctuation away from the middle value.
MaxVaried == 1

\* The largest quantity the + button of the transaction modal is followed to, and
\* the largest quantity a handler is called with.
MaxQuantity == 2

----------------------------------------------------------------------------
\* Helpers

None == "none"

\* null for an object: the empty sequence; an object x is <<x>>
Null == <<>>

Some(x) == <<x>>

Max(a, b) == IF a >= b THEN a ELSE b

Min(a, b) == IF a <= b THEN a ELSE b

Range(s) == {s[i] : i \in 1..Len(s)}

\* Array.prototype.includes
Includes(s, x) == \E i \in 1..Len(s) : s[i] = x

SkillNames == {"strength", "intelligence", "endurance", "shooting"}

Skills(st, in, en, sh) ==
    [strength |-> st, intelligence |-> in, endurance |-> en, shooting |-> sh]

----------------------------------------------------------------------------
\* Catalogs

\* TravelMap.jsx cities: name -> travelCost, staminaCost
cities ==
    [c \in {"Los Angeles", "Miami", "New York", "Tijuana", "Juarez", "Puerto Vallarta"} |->
        CASE c = "Los Angeles"     -> [travelCost |-> 200, staminaCost |-> 15]
          [] c = "Miami"           -> [travelCost |-> 300, staminaCost |-> 20]
          [] c = "New York"        -> [travelCost |-> 250, staminaCost |-> 18]
          [] c = "Tijuana"         -> [travelCost |-> 150, staminaCost |-> 12]
          [] c = "Juarez"          -> [travelCost |-> 180, staminaCost |-> 14]
          [] c = "Puerto Vallarta" -> [travelCost |-> 220, staminaCost |-> 16]]

CityNames == DOMAIN cities

Mission(loc, req, cash, xp, fh, fs, fc, rate, diff) ==
    [location |-> loc, requirements |-> req, rewards |-> [cash |-> cash, xp |-> xp],
     failureConsequences |-> [health |-> fh, stamina |-> fs, cash |-> fc],
     successRate |-> rate, difficulty |-> diff]

\* Missions missionDatabase. successRate is in percent; a failure consequence the
\* entry does not name is 0 (absent and 0 are both falsy in attemptMission).
missionDatabase ==
    [m \in {"delivery-1", "intimidation-1", "smuggling-1", "heist-1", "assassination-1",
            "drug-lab-1", "money-laundering-1", "cartel-meeting-1", "street-racing-1",
            "information-1"} |->
        CASE m = "delivery-1" ->
               Mission("Any", Skills(1, 1, 2, 1), 500, 50, -10, 0, -100, 80, "Easy")
          [] m = "intimidation-1" ->
               Mission("Any", Skills(3, 1, 1, 1), 750, 75, -15, -20, 0, 70, "Easy")
          [] m = "smuggling-1" ->
               Mission("Tijuana", Skills(2, 4, 3, 2), 1200, 120, -25, 0, -300, 60, "Medium")
          [] m = "heist-1" ->
               Mission("Los Angeles", Skills(3, 5, 4, 6), 2500, 250, -40, -30, -500, 40, "Hard")
          [] m = "assassination-1" ->
               Mission("Miami", Skills(4, 6, 3, 8), 3000, 300, -50, -40, -750, 30, "Hard")
          [] m = "drug-lab-1" ->
               Mission("Juarez", Skills(4, 2, 5, 4), 1500, 150, -30, -25, 0, 50, "Medium")
          [] m = "money-laundering-1" ->
               Mission("New York", Skills(1, 7, 2, 1), 1800, 180, -20, 0, -400, 60, "Medium")
          [] m = "cartel-meeting-1" ->
               Mission("Puerto Vallarta", Skills(5, 8, 4, 5), 4000, 400, -60, -50, -1000, 25, "Hard")
          [] m = "street-racing-1" ->
               Mission("Los Angeles", Skills(2, 3, 4, 1), 800, 80, -20, -15, 0, 70, "Easy")
          [] m = "information-1" ->
               Mission("Any", Skills(2, 6, 3, 2), 1000, 100, -25, -20, 0, 60, "Medium")]

MissionIds == DOMAIN missionDatabase

Item(type, basePrice) == [type |-> type, basePrice |-> basePrice]

\* Streets itemDatabase
itemDatabase ==
    [i \in {"marijuana", "cocaine", "heroin", "ecstasy", "meth", "pistol", "shotgun", "rifle",
            "knife", "body-armor", "lockpicks", "fake-id", "burner-phone", "health-kit",
            "energy-drink", "steroids"} |->
        CASE i = "marijuana"    -> Item("drug", 50)
          [] i = "cocaine"      -> Item("drug", 200)
          [] i = "heroin"       -> Item("drug", 300)
          [] i = "ecstasy"      -> Item("drug", 25)
          [] i = "meth"         -> Item("drug", 150)
          [] i = "pistol"       -> Item("weapon", 500)
          [] i = "shotgun"      -> Item("weapon", 800)
          [] i = "rifle"        -> Item("weapon", 1500)
          [] i = "knife"        -> Item("weapon", 100)
          [] i = "body-armor"   -> Item("equipment", 1000)
          [] i = "lockpicks"    -> Item("equipment", 75)
          [] i = "fake-id"      -> Item("equipment", 250)
          [] i = "burner-phone" -> Item("equipment", 50)
          [] i = "health-kit"   -> Item("consumable", 100)
          [] i = "energy-drink" -> Item("consumable", 20)
          [] i = "steroids"     -> Item("consumable", 200)]

ItemIds == DOMAIN itemDatabase

Npc(loc, inv, buys, sells) ==
    [location |-> loc, inventory |-> inv, buysPriceMultiplier |-> buys,
     sellsPriceMultiplier |-> sells]

\* Streets npcDatabase, keyed by NPC id; the multipliers are in percent
npcDatabase ==
    [n \in {"la-dealer-1", "la-fence-1", "la-medic-1", "miami-dealer-1", "miami-arms-1",
            "ny-dealer-1", "ny-tech-1", "tj-dealer-1", "tj-smuggler-1", "jz-dealer-1",
            "pv-dealer-1"} |->
        CASE n = "la-dealer-1" ->
               Npc("Los Angeles", {"marijuana", "cocaine", "ecstasy"}, 70, 130)
          [] n = "la-fence-1" ->
               Npc("Los Angeles", {"pistol", "knife", "lockpicks", "fake-id"}, 60, 140)
          [] n = "la-medic-1" ->
               Npc("Los Angeles", {"health-kit", "steroids", "energy-drink"}, 80, 120)
          [] n = "miami-dealer-1" ->
               Npc("Miami", {"cocaine", "heroin", "meth"}, 80, 120)
          [] n = "miami-arms-1" ->
               Npc("Miami", {"shotgun", "rifle", "body-armor", "pistol"}, 70, 130)
          [] n = "ny-dealer-1" ->
               Npc("New York", {"marijuana", "ecstasy", "burner-phone"}, 75, 125)
          [] n = "ny-tech-1" ->
               Npc("New York", {"fake-id", "burner-phone", "lockpicks"}, 60, 140)
          [] n = "tj-dealer-1" ->
               Npc("Tijuana", {"marijuana", "cocaine", "heroin", "meth"}, 50, 150)
          [] n = "tj-smuggler-1" ->
               Npc("Tijuana", {"fake-id", "body-armor", "knife"}, 70, 130)
          [] n = "jz-dealer-1" ->
               Npc("Juarez", {"pistol", "shotgun", "knife", "steroids"}, 80, 120)
          [] n = "pv-dealer-1" ->
               Npc("Puerto Vallarta", {"marijuana", "ecstasy", "cocaine", "energy-drink"}, 90, 110)]

NpcIds == DOMAIN npcDatabase

\* npcDatabase[character.location] || []
locationNpcs(loc) == {n \in NpcIds : npcDatabase[n].location = loc}

\* The values 0.8 + Math.random() * 0.5 is drawn from, in thousandths: the two ends
\* of [0.8, 1.3) and a value between them.
Fluctuations == {800, 1050, 1299}

----------------------------------------------------------------------------
\* Characters

\* Character names, as the characters typed
Rico == <<"R", "i", "c", "o">>

\* The name inputs createCharacter is called with: a name, the same name in
\* capitals with a space typed after it, another name, and one too short
TypedNames ==
    { Rico,
      <<"R", "I", "C", "O", " ">>,
      <<"A", "n", "a">>,
      <<"A", "l">> }

\* String.prototype.trim, for the space character
RECURSIVE trim(_)
trim(s) ==
    IF s = <<>> THEN s
    ELSE IF Head(s) = " " THEN trim(Tail(s))
    ELSE IF s[Len(s)] = " " THEN trim(SubSeq(s, 1, Len(s) - 1))
    ELSE s

\* The lower-case letter of each capital A..Z
lowerCaseOf ==
    LET upper == <<"A", "B", "C", "D", "E", "F", "G", "H", "I", "J", "K", "L", "M",
                   "N", "O", "P", "Q", "R", "S", "T", "U", "V", "W", "X", "Y", "Z">>
        lower == <<"a", "b", "c", "d", "e", "f", "g", "h", "i", "j", "k", "l", "m",
                   "n", "o", "p", "q", "r", "s", "t", "u", "v", "w", "x", "y", "z">>
    IN  [c \in Range(upper) |-> lower[CHOOSE j \in 1..26 : upper[j] = c]]

\* String.prototype.toLowerCase: capitals A..Z replaced, every other character kept
toLowerCase(s) ==
    [k \in 1..Len(s) |-> IF s[k] \in DOMAIN lowerCaseOf THEN lowerCaseOf[s[k]] ELSE s[k]]

\* The record createCharacter builds; saved games hold the same fields.
Character(id, name, loc, xp, cash, health, stamina, skills) ==
    [id |-> id, name |-> name, location |-> loc, level |-> 1, xp |-> xp, cash |-> cash,
     health |-> health, stamina |-> stamina, skills |-> skills,
     items |-> <<>>, completedMissions |-> <<>>]

\* An entry of character.inventory.items
Held(itemId, quantity) == [id |-> itemId, quantity |-> quantity]

\* Saved games found in storage when the app starts (App.checkAuthState,
\* CharacterSelect.loadCharacters): the spec's scenario characters and one worn down
\* by failed missions, carrying what it bought earlier.
SavedCharacters ==
    { Character(1, Rico, "Los Angeles", 0, 1000, 100, 100, Skills(3, 1, 2, 1)),
      Character(1, Rico, "Miami", 200, 100, 100, 100, Skills(1, 1, 1, 1)),
      [Character(1, Rico, "Tijuana", 0, 250, 10, 14, Skills(3, 1, 2, 1))
          EXCEPT !.items = <<Held("health-kit", 1), Held("knife", 1)>>] }

----------------------------------------------------------------------------
\* Component state at mount

\* Missions.loadAvailableMissions: not completed, and bound to this city or to 'Any'
loadAvailableMissions(ch) ==
    {m \in MissionIds :
        /\ ~Includes(ch.completedMissions, m)
        /\ ~(missionDatabase[m].location # "Any" /\ missionDatabase[m].location # ch.location)}

\* The state a route's component is mounted with (useState initial values, then the
\* mount effect); given is the character object
\* the handler that has just run was given, as that handler left it.
Mounted(screen, ch) ==
    CASE screen = "travel" ->
           [screen |-> "travel", selectedCity |-> None, showConfirmation |-> FALSE,
            isTravel |-> FALSE]
      [] screen = "missions" ->
           [screen |-> "missions", availableMissions |-> loadAvailableMissions(ch[1]),
            selectedMission |-> None, showConfirmation |-> FALSE, isAttempting |-> FALSE,
            missionResult |-> Null, filterDifficulty |-> "all"]
      [] screen = "skills" ->
           [screen |-> "skills", isUpgrading |-> FALSE]
      [] screen = "inventory" ->
           [screen |-> "inventory", selectedItem |-> Null, showItemModal |-> FALSE,
            filterType |-> "all", isProcessing |-> FALSE, given |-> Null]
      [] screen = "characters" ->
           [screen |-> "characters", error |-> None]
      [] OTHER -> [screen |-> screen]

\* The routes a session of Spec visits
Screens == {"characters", "menu", "travel", "missions", "skills"}

\* The routes a session of SpecTrade visits besides /streets, which EnterStreets
\* mounts with the quotes it draws
TradeScreens == {"menu", "inventory"}

----------------------------------------------------------------------------
\* Initial state: signed in, no character selected yet, the account's saved
\* characters in storage.

Init ==
    /\ roster \in {<<s>> : s \in SavedCharacters}
    /\ stored = Null
    /\ character = Null
    /\ ui = Mounted("characters", Null)
    /\ pending = <<>>
    /\ alertMsg = None
    /\ budget = MaxSteps

----------------------------------------------------------------------------
\* App

\* App.handleCharacterSelect, from CharacterSelect's Select button
handleCharacterSelect ==
    /\ ui.screen = "characters"
    /\ \E i \in 1..Len(roster) :
        /\ character' = Some(roster[i])
        /\ stored' = Some(roster[i])
    /\ alertMsg' = None
    /\ UNCHANGED <<roster, ui, pending, budget>>

\* A HUD / main menu link: the old route's component unmounts (its timers then set
\* state on nothing), the new one mounts. Game routes redirect without a character.
NavigateTo(routes) ==
    /\ \E s \in routes :
        /\ s # ui.screen
        /\ s # "characters" => character # Null
        /\ ui' = Mounted(s, character)
    /\ pending' = <<>>
    /\ alertMsg' = None
    /\ UNCHANGED <<roster, stored, character, budget>>

Navigate == NavigateTo(Screens)

NavigateTrade == NavigateTo(TradeScreens)

----------------------------------------------------------------------------
\* CharacterSelect

\* The ids of the starting locations, in place of their names
startingLocationIds ==
    {"los-angeles", "miami", "new-york", "tijuana", "juarez", "puerto-vallarta"}

\* startingLocations, by name: the values of the form's select
startingLocations ==
    {"Los Angeles", "Miami", "New York", "Tijuana", "Juarez", "Puerto Vallarta"}

\* Date.now().toString() of a creation: above every id given before. The least
\* number above the ids still held in the list, in memory or in storage.
newId ==
    LET held == {roster[i].id : i \in 1..Len(roster)}
                    \cup {c.id : c \in Range(character)} \cup {c.id : c \in Range(stored)}
    IN  1 + (IF held = {} THEN 0 ELSE CHOOSE n \in held : \A k \in held : k <= n)

\* setError(message) of a refused creation
creationRefused(message) ==
    /\ ui' = [ui EXCEPT !.error = message]
    /\ UNCHANGED <<roster, stored, character, pending, alertMsg, budget>>

\* CharacterSelect.createCharacter, the form holding name and startingLocation.
\* characters is the list loaded at mount and kept equal to storage by every write
\* of this component.
\* createCharacter without the check of characters.length
createCharacterUnlimited(name, startingLocation) ==
    /\ ui.screen = "characters"
    /\ IF trim(name) = <<>>
       THEN creationRefused("Character name is required")
       ELSE IF Len(name) < 3 \/ Len(name) > 20
       THEN creationRefused("Character name must be between 3 and 20 characters")
       ELSE IF \E i \in 1..Len(roster) : toLowerCase(roster[i].name) = toLowerCase(name)
       THEN creationRefused("A character with this name already exists")
       ELSE /\ budget > 0
            /\ roster' = Append(roster, Character(newId, trim(name), startingLocation,
                                                  0, 1000, 100, 100, Skills(1, 1, 1, 1)))
            /\ ui' = [ui EXCEPT !.error = None]
            /\ budget' = budget - 1
            /\ UNCHANGED <<stored, character, pending, alertMsg>>

createCharacter(name, startingLocation) ==
    /\ ui.screen = "characters"
    /\ IF trim(name) = <<>>
       THEN creationRefused("Character name is required")
       ELSE IF Len(name) < 3 \/ Len(name) > 20
       THEN creationRefused("Character name must be between 3 and 20 characters")
       ELSE IF \E i \in 1..Len(roster) : toLowerCase(roster[i].name) = toLowerCase(name)
       THEN creationRefused("A character with this name already exists")
       ELSE IF Len(roster) >= 3
       THEN creationRefused("Maximum of 3 characters allowed per account")
       ELSE /\ budget > 0
            /\ roster' = Append(roster, Character(newId, trim(name), startingLocation,
                                                  0, 1000, 100, 100, Skills(1, 1, 1, 1)))
            /\ ui' = [ui EXCEPT !.error = None]
            /\ budget' = budget - 1
            /\ UNCHANGED <<stored, character, pending, alertMsg>>

\* The form submitted with any of the names and any starting location
submitCreateForm ==
    \E name \in TypedNames, startingLocation \in startingLocations :
        createCharacter(name, startingLocation)

\* CharacterSelect.deleteCharacter(characterId), from the confirmation modal of a
\* character's delete button. currentCharacter is App's state, passed as a prop.
deleteCharacter(characterId) ==
    /\ ui.screen = "characters"
    /\ roster' = SelectSeq(roster, LAMBDA char : char.id # characterId)
    /\ stored' = IF character # Null /\ character[1].id = characterId THEN Null ELSE stored
    /\ ui' = [ui EXCEPT !.error = None]
    /\ UNCHANGED <<character, pending, alertMsg, budget>>

\* Delete confirmed for any character of the list
confirmDelete == \E i \in 1..Len(roster) : deleteCharacter(roster[i].id)

----------------------------------------------------------------------------
\* TravelMap

\* The component state TravelMap.handleCityClick sets for city c
cityClicked(c) == [ui EXCEPT !.selectedCity = c, !.showConfirmation = TRUE]

\* TravelMap.handleCityClick and the render that follows. The confirmation modal
\* reads isTraveling, which no scope of the module declares (the state variable is
\* isTravel): the render throws a ReferenceError and, no error boundary being
\* there to catch it, React unmounts the whole tree. What is left is the blank
\* page at the route, with the component state the handler had set gone.
handleCityClick ==
    /\ ui.screen = "travel"
    /\ ~ui.showConfirmation
    /\ \E c \in CityNames :
        /\ c # character[1].location
        /\ cityClicked(c).showConfirmation /\ cityClicked(c).selectedCity # None
        /\ ui' = [screen |-> "error", route |-> ui.screen]
    /\ alertMsg' = None
    /\ UNCHANGED <<roster, stored, character, pending, budget>>

\* The browser's reload at the blank page: App mounts again, checkAuthState reads
\* currentCharacter from storage, and the route's component mounts afresh.
reloadPage ==
    /\ ui.screen = "error"
    /\ stored # Null
    /\ character' = stored
    /\ ui' = Mounted(ui.route, stored)
    /\ pending' = <<>>
    /\ alertMsg' = None
    /\ UNCHANGED <<roster, stored, budget>>

\* The travel modal's Cancel button, were the modal to render
cancelTravel ==
    /\ ui.screen = "travel"
    /\ ui.showConfirmation
    /\ ui' = [ui EXCEPT !.selectedCity = None, !.showConfirmation = FALSE]
    /\ alertMsg' = None
    /\ UNCHANGED <<roster, stored, character, pending, budget>>

\* travelled without the fare
travelledFree(ch, city) ==
    [ch EXCEPT !.location = city,
               !.stamina = Max(0, ch.stamina - cities[city].staminaCost)]

\* The character confirmTravel hands to onCharacterUpdate
travelled(ch, city) ==
    [ch EXCEPT !.location = city,
               !.cash = ch.cash - cities[city].travelCost,
               !.stamina = Max(0, ch.stamina - cities[city].staminaCost)]

\* confirmTravel without its two checks
confirmTravelUnchecked ==
    /\ ui.screen = "travel"
    /\ ui.showConfirmation
    /\ ui.selectedCity # None
    /\ budget > 0
    /\ character' = Some(travelled(character[1], ui.selectedCity))
    /\ stored' = Some(travelled(character[1], ui.selectedCity))
    /\ ui' = [ui EXCEPT !.selectedCity = None, !.showConfirmation = FALSE]
    /\ alertMsg' = None
    /\ budget' = budget - 1
    /\ UNCHANGED <<roster, pending>>

\* TravelMap.confirmTravel, the travel modal's Travel button, were the modal to
\* render: the handler on the component state handleCityClick sets
confirmTravel ==
    /\ ui.screen = "travel"
    /\ ui.showConfirmation
    /\ ui.selectedCity # None
    /\ LET city == ui.selectedCity
           ch == character[1] IN
        IF ch.cash < cities[city].travelCost
        THEN /\ alertMsg' = "Not enough cash for this trip!"
             /\ UNCHANGED <<roster, stored, character, ui, pending, budget>>
        ELSE IF ch.stamina < cities[city].staminaCost
        THEN /\ alertMsg' = "Not enough stamina for this trip!"
             /\ UNCHANGED <<roster, stored, character, ui, pending, budget>>
        ELSE /\ budget > 0
             /\ character' = Some(travelled(ch, city))
             /\ stored' = Some(travelled(ch, city))
             /\ ui' = [ui EXCEPT !.selectedCity = None, !.showConfirmation = FALSE]
             /\ alertMsg' = None
             /\ budget' = budget - 1
             /\ UNCHANGED <<roster, pending>>

----------------------------------------------------------------------------
\* Missions

\* skills[skill] || 1
SkillOr1(skills, skill) == IF skills[skill] = 0 THEN 1 ELSE skills[skill]

RECURSIVE SumOver(_, _)
\* The forEach accumulation of calculateSuccessRate over Object.keys(requirements)
SumOver(f, keys) ==
    IF keys = {} THEN 0
    ELSE LET k == CHOOSE x \in keys : TRUE IN f[k] + SumOver(f, keys \ {k})

\* totalRequirement of calculateSuccessRate for each mission of the catalog
totalRequirements ==
    [m \in MissionIds |-> SumOver(missionDatabase[m].requirements, SkillNames)]

totalRequirement(m) == totalRequirements[m]

totalSkill(skills) == SumOver([k \in SkillNames |-> SkillOr1(skills, k)], SkillNames)

\* The probabilities of mission m are numerators over this denominator.
RateDen(m) == 100 * totalRequirement(m)

\* adjustedRate falling with the skills where the code's rises
adjustedRateInverted(m, skills) ==
    missionDatabase[m].successRate
        * (3 * totalRequirement(m) - Min(totalSkill(skills), 2 * totalRequirement(m)))

\* mission.successRate * Math.min(skillRatio, 2), over RateDen(m):
\* (successRate / 100) * min(totalSkill / totalRequirement, 2)
adjustedRate(m, skills) ==
    missionDatabase[m].successRate * Min(totalSkill(skills), 2 * totalRequirement(m))

\* calculateSuccessRate without the clamp
unclampedRate(m, skills) == adjustedRate(m, skills)

\* Missions.calculateSuccessRate, over RateDen(m):
\* Math.min(Math.max(adjustedRate, 0.1), 0.95)
calculateSuccessRate(m, skills) ==
    Min(Max(adjustedRate(m, skills), 10 * totalRequirement(m)), 95 * totalRequirement(m))

\* Missions.meetsRequirements
meetsRequirements(m, skills) ==
    \A k \in SkillNames : SkillOr1(skills, k) >= missionDatabase[m].requirements[k]

\* Missions.getFilteredMissions
getFilteredMissions ==
    IF ui.filterDifficulty = "all" THEN ui.availableMissions
    ELSE {m \in ui.availableMissions : missionDatabase[m].difficulty = ui.filterDifficulty}

\* A modal (confirmation or result) covers the mission grid.
MissionModalOpen ==
    \/ ui.missionResult # Null
    \/ ui.showConfirmation /\ ui.selectedMission # None

\* The difficulty filter buttons
setFilterDifficulty ==
    /\ ui.screen = "missions"
    /\ ~MissionModalOpen
    /\ \E d \in {"all", "Easy", "Medium", "Hard"} :
        /\ d # ui.filterDifficulty
        /\ ui' = [ui EXCEPT !.filterDifficulty = d]
    /\ alertMsg' = None
    /\ UNCHANGED <<roster, stored, character, pending, budget>>

\* A mission card's onClick: canAttempt && handleMissionSelect(mission)
handleMissionSelect ==
    /\ ui.screen = "missions"
    /\ ~MissionModalOpen
    /\ \E m \in getFilteredMissions :
        /\ meetsRequirements(m, character[1].skills)
        /\ ui' = [ui EXCEPT !.selectedMission = m, !.showConfirmation = TRUE,
                            !.missionResult = Null]
    /\ alertMsg' = None
    /\ UNCHANGED <<roster, stored, character, pending, budget>>

\* The confirmation modal's Cancel button
cancelMission ==
    /\ ui.screen = "missions"
    /\ ui.showConfirmation /\ ui.selectedMission # None /\ ui.missionResult = Null
    /\ ui' = [ui EXCEPT !.selectedMission = None, !.showConfirmation = FALSE]
    /\ alertMsg' = None
    /\ UNCHANGED <<roster, stored, character, pending, budget>>

\* randomRoll < successRate
isSuccessStrict(m, skills, k) == k * RateDen(m) < calculateSuccessRate(m, skills) * RollSteps

\* randomRoll <= successRate, the roll being k / RollSteps
isSuccess(m, skills, k) == k * RateDen(m) <= calculateSuccessRate(m, skills) * RollSteps

\* attemptMission's success branch
missionSucceeded(ch, m) ==
    [ch EXCEPT !.cash = ch.cash + missionDatabase[m].rewards.cash,
               !.xp = ch.xp + missionDatabase[m].rewards.xp,
               !.completedMissions = Append(ch.completedMissions, m)]

\* The failure branch without Math.max(0, ...)
missionFailedUnclamped(ch, m) ==
    LET c == missionDatabase[m].failureConsequences IN
    [ch EXCEPT !.health = ch.health + c.health,
               !.stamina = ch.stamina + c.stamina,
               !.cash = ch.cash + c.cash]

\* attemptMission's failure branch: a consequence of 0 (or absent) is skipped
missionFailed(ch, m) ==
    LET c == missionDatabase[m].failureConsequences IN
    [ch EXCEPT !.health = IF c.health # 0 THEN Max(0, ch.health + c.health) ELSE ch.health,
               !.stamina = IF c.stamina # 0 THEN Max(0, ch.stamina + c.stamina) ELSE ch.stamina,
               !.cash = IF c.cash # 0 THEN Max(0, ch.cash + c.cash) ELSE ch.cash]

\* Missions.attemptMission with the re-render it causes: the effect on [character]
\* reloads the list from the new character, and the handler's own setTimeout keeps
\* the loadAvailableMissions of the render it was created in, i.e. of the old one.
\* missionResult also keeps randomRoll, the handler's local draw (as k of RollSteps),
\* for the properties that relate the outcome to the draw.
attemptMission ==
    /\ ui.screen = "missions"
    /\ ui.selectedMission # None
    /\ ui.showConfirmation /\ ui.missionResult = Null
    /\ budget > 0
    /\ \E k \in 0..(RollSteps - 1) :
        LET m == ui.selectedMission
            ch == character[1]
            ok == isSuccess(m, ch.skills, k)
            updatedCharacter == IF ok THEN missionSucceeded(ch, m) ELSE missionFailed(ch, m)
        IN  /\ character' = Some(updatedCharacter)
            /\ stored' = Some(updatedCharacter)
            /\ ui' = [ui EXCEPT !.missionResult =
                                    Some([success |-> ok, mission |-> m, randomRoll |-> k]),
                                !.availableMissions = loadAvailableMissions(updatedCharacter)]
            /\ pending' = Append(pending, ch)
    /\ alertMsg' = None
    /\ budget' = budget - 1
    /\ UNCHANGED <<roster>>

\* The setTimeout callback of attemptMission, 1000 ms later, if Missions is still
\* mounted: loadAvailableMissions over the character of the render that made it.
reloadTimer ==
    /\ ui.screen = "missions"
    /\ pending # <<>>
    /\ ui' = [ui EXCEPT !.availableMissions = loadAvailableMissions(Head(pending))]
    /\ pending' = Tail(pending)
    /\ UNCHANGED <<roster, stored, character, alertMsg, budget>>

\* The result modal's Continue button
continueMission ==
    /\ ui.screen = "missions"
    /\ ui.missionResult # Null
    /\ ui' = [ui EXCEPT !.missionResult = Null, !.showConfirmation = FALSE,
                        !.selectedMission = None]
    /\ alertMsg' = None
    /\ UNCHANGED <<roster, stored, character, pending, budget>>

----------------------------------------------------------------------------
\* SkillTree

\* SkillTree.upgradeSkill: currentLevel >= 20 is the maximum
MaxSkillLevel == 20

RECURSIVE Pow(_, _)
Pow(b, n) == IF n = 0 THEN 1 ELSE b * Pow(b, n - 1)

RECURSIVE CostParts(_)
\* 100 * 1.5^n as q + r / 2^n with 0 <= r < 2^n, by q and r of n - 1, so that no
\* intermediate value leaves the 32-bit integers. (Math.pow(1.5, n) and its product
\* with 100 are exact in a double for the levels the skill tree reaches.)
CostParts(n) ==
    IF n = 0 THEN [q |-> 100, r |-> 0]
    ELSE LET p == CostParts(n - 1)
             half == Pow(2, n - 1)
             whole == 3 * p.q + (3 * p.r) \div half
         IN  [q |-> whole \div 2, r |-> ((whole % 2) * half) + ((3 * p.r) % half)]

\* Math.floor(100 * Math.pow(1.5, n)) for the levels a skill can hold
floorCosts == [n \in 0..MaxSkillLevel |-> CostParts(n).q]

\* getUpgradeCost kept to 16 bits
getUpgradeCostShort(currentLevel) == floorCosts[currentLevel] % 65536

\* SkillTree.getUpgradeCost
getUpgradeCost(currentLevel) == floorCosts[currentLevel]

\* upgraded charging the cost of the level reached, not of the level left
upgradedAtNextCost(ch, skillName) ==
    [ch EXCEPT !.xp = ch.xp - getUpgradeCost(ch.skills[skillName] + 1),
               !.skills = [ch.skills EXCEPT ![skillName] = ch.skills[skillName] + 1]]

\* The character upgradeSkill hands to onCharacterUpdate
upgraded(ch, skillName) ==
    [ch EXCEPT !.xp = ch.xp - getUpgradeCost(ch.skills[skillName]),
               !.skills = [ch.skills EXCEPT ![skillName] = ch.skills[skillName] + 1]]

\* characters.map(char => char.id === character.id ? updatedCharacter : char)
replaceInRoster(list, updatedCharacter) ==
    [i \in 1..Len(list) |-> IF list[i].id = updatedCharacter.id THEN updatedCharacter ELSE list[i]]

\* upgradeSkill without its two checks
upgradeSkillUnchecked(skillName) ==
    /\ budget > 0
    /\ character' = Some(upgraded(character[1], skillName))
    /\ stored' = Some(upgraded(character[1], skillName))
    /\ roster' = replaceInRoster(roster, upgraded(character[1], skillName))
    /\ alertMsg' = None
    /\ budget' = budget - 1
    /\ UNCHANGED <<ui, pending>>

\* upgradeSkill reporting its two refusals and then upgrading all the same
upgradeSkillNoReturn(skillName) ==
    /\ budget > 0
    /\ character' = Some(upgraded(character[1], skillName))
    /\ stored' = Some(upgraded(character[1], skillName))
    /\ roster' = replaceInRoster(roster, upgraded(character[1], skillName))
    /\ alertMsg' =
          IF character[1].xp < getUpgradeCost(character[1].skills[skillName])
          THEN "Not enough XP to upgrade this skill!"
          ELSE IF character[1].skills[skillName] >= MaxSkillLevel
          THEN "This skill is already at maximum level!"
          ELSE None
    /\ budget' = budget - 1
    /\ UNCHANGED <<ui, pending>>

\* upgradeSkill without its check of the maximum level
upgradeSkillNoCap(skillName) ==
    IF character[1].xp < getUpgradeCost(character[1].skills[skillName])
    THEN /\ alertMsg' = "Not enough XP to upgrade this skill!"
         /\ UNCHANGED <<roster, stored, character, ui, pending, budget>>
    ELSE upgradeSkillUnchecked(skillName)

\* SkillTree.upgradeSkill(skillName)
upgradeSkill(skillName) ==
    LET ch == character[1]
        currentLevel == ch.skills[skillName]
    IN  IF ch.xp < getUpgradeCost(currentLevel)
        THEN /\ alertMsg' = "Not enough XP to upgrade this skill!"
             /\ UNCHANGED <<roster, stored, character, ui, pending, budget>>
        ELSE IF currentLevel >= MaxSkillLevel
        THEN /\ alertMsg' = "This skill is already at maximum level!"
             /\ UNCHANGED <<roster, stored, character, ui, pending, budget>>
        ELSE /\ budget > 0
             /\ character' = Some(upgraded(ch, skillName))
             /\ stored' = Some(upgraded(ch, skillName))
             /\ roster' = replaceInRoster(roster, upgraded(ch, skillName))
             /\ alertMsg' = None
             /\ budget' = budget - 1
             /\ UNCHANGED <<ui, pending>>

\* canUpgrade of a skill card
canUpgrade(ch, skillName) ==
    ch.xp >= getUpgradeCost(ch.skills[skillName]) /\ ch.skills[skillName] < MaxSkillLevel

\* A skill card's Upgrade button: rendered below level 20, disabled unless canUpgrade
clickUpgrade ==
    /\ ui.screen = "skills"
    /\ \E skillName \in SkillNames :
        /\ canUpgrade(character[1], skillName)
        /\ upgradeSkill(skillName)

\* upgradeSkill called with any skill
callUpgradeSkill ==
    /\ ui.screen = "skills"
    /\ \E skillName \in SkillNames : upgradeSkill(skillName)

----------------------------------------------------------------------------
\* Streets

\* Math.round of the positive quotient n / d
Round(n, d) == (2 * n + d) \div (2 * d)

\* generateDynamicPrices with a draw of its own for the sell price, here the top
\* of the range, instead of the one fluctuation both prices share
generateDynamicPricesTwoDraws(n, fl) ==
    [i \in npcDatabase[n].inventory |->
        [buy  |-> Round(itemDatabase[i].basePrice * npcDatabase[n].sellsPriceMultiplier * fl[i],
                        100000),
         sell |-> Round(itemDatabase[i].basePrice * npcDatabase[n].buysPriceMultiplier * 1299,
                        100000)]]

\* Streets.generateDynamicPrices: fl[i] is the fluctuation drawn for item i, in
\* thousandths. buy is what the player pays, sell what the NPC pays.
generateDynamicPrices(n, fl) ==
    [i \in npcDatabase[n].inventory |->
        [buy  |-> Round(itemDatabase[i].basePrice * npcDatabase[n].sellsPriceMultiplier * fl[i],
                        100000),
         sell |-> Round(itemDatabase[i].basePrice * npcDatabase[n].buysPriceMultiplier * fl[i],
                        100000)]]

\* The (NPC, item) pairs loadLocationNpcs draws a fluctuation for
Stocked(loc) == {p \in locationNpcs(loc) \X ItemIds : p[2] \in npcDatabase[p[1]].inventory}

\* The draws explored for one load: every quote draws from Fluctuations, at most
\* MaxVaried of them away from the middle value.
FluctuationDraws(loc) ==
    LET mid == 1050
        varied == {V \in SUBSET Stocked(loc) : Cardinality(V) <= MaxVaried}
    IN  UNION {{[p \in Stocked(loc) |-> IF p \in V THEN g[p] ELSE mid] :
                    g \in [V -> Fluctuations \ {mid}]} : V \in varied}

\* Streets.loadLocationNpcs with draws d
loadLocationNpcs(loc, d) ==
    [n \in locationNpcs(loc) |->
        generateDynamicPrices(n, [i \in npcDatabase[n].inventory |-> d[<<n, i>>]])]

\* The /streets link: Streets mounts and its effect on [character.location] draws
\* the quotes of every NPC of the city.
EnterStreets ==
    /\ ui.screen # "streets"
    /\ character # Null
    /\ \E d \in FluctuationDraws(character[1].location) :
        ui' = [screen |-> "streets", npcs |-> loadLocationNpcs(character[1].location, d),
               selectedNpc |-> None, selectedItem |-> None, transactionType |-> "buy",
               quantity |-> 1, showTransaction |-> FALSE, isProcessing |-> FALSE,
               given |-> Null]
    /\ pending' = <<>>
    /\ alertMsg' = None
    /\ UNCHANGED <<roster, stored, character, budget>>

\* Streets.getPlayerItemQuantity
getPlayerItemQuantity(ch, itemId) ==
    IF \E k \in 1..Len(ch.items) : ch.items[k].id = itemId
    THEN ch.items[CHOOSE k \in 1..Len(ch.items) :
                    /\ ch.items[k].id = itemId
                    /\ \A j \in 1..(k - 1) : ch.items[j].id # itemId].quantity
    ELSE 0

\* Array.prototype.findIndex by item id, 1-based; 0 when no entry has the id
findIndex(items, itemId) ==
    IF \E k \in 1..Len(items) : items[k].id = itemId
    THEN CHOOSE k \in 1..Len(items) :
            /\ items[k].id = itemId
            /\ \A j \in 1..(k - 1) : items[j].id # itemId
    ELSE 0

\* Array.prototype.splice(index, 1)
splice(items, k) == [j \in 1..(Len(items) - 1) |-> IF j < k THEN items[j] ELSE items[j + 1]]

\* The buy branch pushing a new entry whether or not the item is held
addItemsPushed(items, itemId, quantity) ==
    Append(items, [id |-> itemId, quantity |-> quantity])

\* The buy branch's inventory update: add to the entry found, or push a new one
addItems(items, itemId, quantity) ==
    LET k == findIndex(items, itemId) IN
    IF k # 0 THEN [items EXCEPT ![k].quantity = items[k].quantity + quantity]
    ELSE Append(items, [id |-> itemId, quantity |-> quantity])

\* The removal shared by sell, use and drop: subtract from the entry found and
\* splice it out when nothing is left
removeItems(items, itemId, quantity) ==
    LET k == findIndex(items, itemId) IN
    IF k = 0 THEN items
    ELSE IF items[k].quantity - quantity <= 0 THEN splice(items, k)
    ELSE [items EXCEPT ![k].quantity = items[k].quantity - quantity]

TransactionModalOpen ==
    ui.showTransaction /\ ui.selectedItem # None /\ ui.selectedNpc # None

\* The quote the open modal trades at: selectedNpc.currentPrices[selectedItem]
\* (selectedNpc is the entry of npcs picked by handleNpcSelect; npcs does not change
\* while Streets is mounted)
Quote == ui.npcs[ui.selectedNpc][ui.selectedItem]

\* Streets.handleNpcSelect
handleNpcSelect ==
    /\ ui.screen = "streets"
    /\ ~TransactionModalOpen
    /\ \E n \in DOMAIN ui.npcs :
        ui' = [ui EXCEPT !.given = Null, !.selectedNpc = n, !.selectedItem = None,
                         !.transactionType = "buy", !.quantity = 1]
    /\ alertMsg' = None
    /\ UNCHANGED <<roster, stored, character, pending, budget>>

\* Streets.handleItemSelect from an item card's Buy button (disabled when
\* cash < price.buy) or Sell button (disabled when the player holds none)
Streets_handleItemSelect ==
    /\ ui.screen = "streets"
    /\ ~TransactionModalOpen
    /\ ui.selectedNpc # None
    /\ \E itemId \in npcDatabase[ui.selectedNpc].inventory, type \in {"buy", "sell"} :
        /\ type = "buy" => character[1].cash >= ui.npcs[ui.selectedNpc][itemId].buy
        /\ type = "sell" => getPlayerItemQuantity(character[1], itemId) # 0
        /\ ui' = [ui EXCEPT !.given = Null, !.selectedItem = itemId, !.transactionType = type,
                            !.quantity = 1, !.showTransaction = TRUE]
    /\ alertMsg' = None
    /\ UNCHANGED <<roster, stored, character, pending, budget>>

\* The modal's - button
decreaseQuantity ==
    /\ ui.screen = "streets"
    /\ TransactionModalOpen
    /\ ui' = [ui EXCEPT !.given = Null, !.quantity = Max(1, ui.quantity - 1)]
    /\ alertMsg' = None
    /\ UNCHANGED <<roster, stored, character, pending, budget>>

\* The modal's + button
increaseQuantity ==
    /\ ui.screen = "streets"
    /\ TransactionModalOpen
    /\ ui.quantity < MaxQuantity
    /\ LET maxQuantity == IF ui.transactionType = "buy"
                          THEN character[1].cash \div Quote.buy
                          ELSE getPlayerItemQuantity(character[1], ui.selectedItem)
       IN  ui' = [ui EXCEPT !.given = Null, !.quantity = Min(maxQuantity, ui.quantity + 1)]
    /\ alertMsg' = None
    /\ UNCHANGED <<roster, stored, character, pending, budget>>

\* The modal's Cancel button
cancelTransaction ==
    /\ ui.screen = "streets"
    /\ TransactionModalOpen
    /\ ui' = [ui EXCEPT !.given = Null, !.showTransaction = FALSE, !.selectedItem = None]
    /\ alertMsg' = None
    /\ UNCHANGED <<roster, stored, character, pending, budget>>

\* The object a handler was given, once the handler has built updatedCharacter
\* from it: let updatedCharacter = { ...character } copies the fields, so the
\* assignments to cash, health and stamina stay in the copy, while inventory is
\* one object in both and the push, the splice and the changes of quantity land
\* in the list the given object holds too
sharingInventory(ch, updatedCharacter) == [ch EXCEPT !.items = updatedCharacter.items]

\* The character the buy branch of processTransaction builds
bought(ch, itemId, price, quantity) ==
    [ch EXCEPT !.cash = ch.cash - price * quantity,
               !.items = addItems(ch.items, itemId, quantity)]

\* The sell branch giving up the whole entry for the price of quantity units
soldWholeEntry(ch, itemId, price, quantity) ==
    [ch EXCEPT !.cash = ch.cash + price * quantity,
               !.items = removeItems(ch.items, itemId, getPlayerItemQuantity(ch, itemId))]

\* The character the sell branch of processTransaction builds
sold(ch, itemId, price, quantity) ==
    [ch EXCEPT !.cash = ch.cash + price * quantity,
               !.items = removeItems(ch.items, itemId, quantity)]

\* processTransaction calling loadLocationNpcs again once the trade is done
processTransactionRequoted ==
    /\ ui.screen = "streets"
    /\ TransactionModalOpen
    /\ budget > 0
    /\ ~(ui.transactionType = "buy" /\ character[1].cash < Quote.buy * ui.quantity)
    /\ ~(ui.transactionType # "buy"
            /\ getPlayerItemQuantity(character[1], ui.selectedItem) < ui.quantity)
    /\ LET updatedCharacter ==
               IF ui.transactionType = "buy"
               THEN bought(character[1], ui.selectedItem, Quote.buy, ui.quantity)
               ELSE sold(character[1], ui.selectedItem, Quote.sell, ui.quantity)
       IN  /\ character' = Some(updatedCharacter)
           /\ stored' = Some(updatedCharacter)
    /\ \E d \in FluctuationDraws(character[1].location) :
        ui' = [ui EXCEPT !.showTransaction = FALSE, !.selectedItem = None,
                         !.given = Some(character[1]),
                         !.npcs = loadLocationNpcs(character[1].location, d)]
    /\ alertMsg' = IF ui.transactionType = "buy" THEN "Bought" ELSE "Sold"
    /\ budget' = budget - 1
    /\ UNCHANGED <<roster, pending>>

\* Streets.processTransaction
processTransaction ==
    /\ ui.screen = "streets"
    /\ TransactionModalOpen
    /\ LET ch == character[1]
           itemId == ui.selectedItem
           quantity == ui.quantity
       IN  IF ui.transactionType = "buy" /\ ch.cash < Quote.buy * quantity
           THEN /\ alertMsg' = "Not enough cash for this purchase"
                /\ UNCHANGED <<roster, stored, character, ui, pending, budget>>
           ELSE IF ui.transactionType # "buy" /\ getPlayerItemQuantity(ch, itemId) < quantity
           THEN /\ alertMsg' = "Not enough items to sell"
                /\ UNCHANGED <<roster, stored, character, ui, pending, budget>>
           ELSE LET updatedCharacter == IF ui.transactionType = "buy"
                                        THEN bought(ch, itemId, Quote.buy, quantity)
                                        ELSE sold(ch, itemId, Quote.sell, quantity)
                IN  /\ budget > 0
                    /\ character' = Some(updatedCharacter)
                    /\ stored' = Some(updatedCharacter)
                    /\ ui' = [ui EXCEPT !.showTransaction = FALSE, !.selectedItem = None,
                                        !.given = Some(sharingInventory(ch, updatedCharacter))]
                    /\ alertMsg' = IF ui.transactionType = "buy" THEN "Bought" ELSE "Sold"
                    /\ budget' = budget - 1
                    /\ UNCHANGED <<roster, pending>>

\* The modal's Buy / Sell button, disabled for a buy whose total exceeds cash
clickProcess ==
    /\ ui.screen = "streets"
    /\ TransactionModalOpen
    /\ ~(ui.transactionType = "buy" /\ character[1].cash < Quote.buy * ui.quantity)
    /\ processTransaction

----------------------------------------------------------------------------
\* Inventory

\* Inventory.getFilteredItems
getFilteredItems ==
    IF ui.filterType = "all" THEN Range(character[1].items)
    ELSE {it \in Range(character[1].items) : itemDatabase[it.id].type = ui.filterType}

ItemModalOpen == ui.showItemModal /\ ui.selectedItem # Null

\* The type filter buttons
setFilterType ==
    /\ ui.screen = "inventory"
    /\ ~ItemModalOpen
    /\ \E t \in {"all", "drug", "weapon", "equipment", "consumable"} :
        /\ t # ui.filterType
        /\ ui' = [ui EXCEPT !.given = Null, !.filterType = t]
    /\ alertMsg' = None
    /\ UNCHANGED <<roster, stored, character, pending, budget>>

\* Inventory.handleItemSelect, an item card's onClick
Inventory_handleItemSelect ==
    /\ ui.screen = "inventory"
    /\ ~ItemModalOpen
    /\ \E it \in getFilteredItems :
        ui' = [ui EXCEPT !.given = Null, !.selectedItem = Some(it), !.showItemModal = TRUE]
    /\ alertMsg' = None
    /\ UNCHANGED <<roster, stored, character, pending, budget>>

\* The item modal's close button
closeItemModal ==
    /\ ui.screen = "inventory"
    /\ ItemModalOpen
    /\ ui' = [ui EXCEPT !.given = Null, !.selectedItem = Null, !.showItemModal = FALSE]
    /\ alertMsg' = None
    /\ UNCHANGED <<roster, stored, character, pending, budget>>

\* used without Math.min(100, ...)
usedUncapped(ch, itemId) ==
    [ch EXCEPT !.health = IF itemId = "health-kit" THEN ch.health + 50 ELSE ch.health,
               !.stamina = IF itemId = "energy-drink" THEN ch.stamina + 25 ELSE ch.stamina,
               !.items = removeItems(ch.items, itemId, 1)]

\* used with the unit kept when the item has nothing left to restore
usedKeptAtFull(ch, itemId) ==
    [ch EXCEPT !.health = IF itemId = "health-kit" THEN Min(100, ch.health + 50) ELSE ch.health,
               !.stamina = IF itemId = "energy-drink" THEN Min(100, ch.stamina + 25)
                           ELSE ch.stamina,
               !.items = IF \/ itemId = "health-kit" /\ ch.health = 100
                            \/ itemId = "energy-drink" /\ ch.stamina = 100
                         THEN ch.items
                         ELSE removeItems(ch.items, itemId, 1)]

\* The character useItem builds for a consumable: the switch on item.id, then one
\* unit removed
used(ch, itemId) ==
    [ch EXCEPT !.health = IF itemId = "health-kit" THEN Min(100, ch.health + 50) ELSE ch.health,
               !.stamina = IF itemId = "energy-drink" THEN Min(100, ch.stamina + 25)
                           ELSE ch.stamina,
               !.items = removeItems(ch.items, itemId, 1)]

\* useItem without its check of the item's type
useItemAnyType(itemId) ==
    /\ budget > 0
    /\ character' = Some(used(character[1], itemId))
    /\ stored' = Some(used(character[1], itemId))
    /\ ui' = [ui EXCEPT !.selectedItem = Null, !.showItemModal = FALSE,
                        !.given = Some(sharingInventory(character[1],
                                                        used(character[1], itemId)))]
    /\ alertMsg' = "Used"
    /\ budget' = budget - 1
    /\ UNCHANGED <<roster, pending>>

\* Inventory.useItem(item)
useItem(itemId) ==
    IF itemDatabase[itemId].type # "consumable"
    THEN /\ alertMsg' = "This item cannot be used"
         /\ UNCHANGED <<roster, stored, character, ui, pending, budget>>
    ELSE /\ budget > 0
         /\ character' = Some(used(character[1], itemId))
         /\ stored' = Some(used(character[1], itemId))
         /\ ui' = [ui EXCEPT !.selectedItem = Null, !.showItemModal = FALSE,
                             !.given = Some(sharingInventory(character[1],
                                                             used(character[1], itemId)))]
         /\ alertMsg' = "Used"
         /\ budget' = budget - 1
         /\ UNCHANGED <<roster, pending>>

\* The Use buttons, rendered for consumables only: on an item card, and in the modal
clickUse ==
    /\ ui.screen = "inventory"
    /\ \E it \in Range(character[1].items) :
        /\ IF ItemModalOpen THEN it.id = ui.selectedItem[1].id ELSE it \in getFilteredItems
        /\ itemDatabase[it.id].type = "consumable"
        /\ useItem(it.id)

\* The character dropItem builds
dropped(ch, itemId, quantity) == [ch EXCEPT !.items = removeItems(ch.items, itemId, quantity)]

\* What dropItem reports: `Dropped ${quantity}x ${item.name}`, the item named by its id
droppedMessage(itemId, quantity) == "Dropped " \o ToString(quantity) \o "x " \o itemId

\* dropItem without the write of currentCharacter to localStorage
dropItemUnsaved(itemId, quantity) ==
    /\ budget > 0
    /\ character' = Some(dropped(character[1], itemId, quantity))
    /\ ui' = [ui EXCEPT !.selectedItem = Null, !.showItemModal = FALSE,
                        !.given = Some(sharingInventory(character[1],
                                            dropped(character[1], itemId, quantity)))]
    /\ alertMsg' = droppedMessage(itemId, quantity)
    /\ budget' = budget - 1
    /\ UNCHANGED <<roster, stored, pending>>

\* Inventory.dropItem(item, quantity)
dropItem(itemId, quantity) ==
    /\ budget > 0
    /\ character' = Some(dropped(character[1], itemId, quantity))
    /\ stored' = Some(dropped(character[1], itemId, quantity))
    /\ ui' = [ui EXCEPT !.selectedItem = Null, !.showItemModal = FALSE,
                        !.given = Some(sharingInventory(character[1],
                                            dropped(character[1], itemId, quantity)))]
    /\ alertMsg' = droppedMessage(itemId, quantity)
    /\ budget' = budget - 1
    /\ UNCHANGED <<roster, pending>>

\* The Drop buttons once window.confirm is accepted: dropItem(item, 1) on a card,
\* dropItem(selectedItem, selectedItem.quantity) in the modal
clickDrop ==
    /\ ui.screen = "inventory"
    /\ IF ItemModalOpen
       THEN dropItem(ui.selectedItem[1].id, ui.selectedItem[1].quantity)
       ELSE \E it \in getFilteredItems : dropItem(it.id, 1)

\* useItem called with any item held
callUseItem ==
    /\ ui.screen = "inventory"
    /\ \E it \in Range(character[1].items) : useItem(it.id)

\* dropItem called with any item held and any quantity
callDropItem ==
    /\ ui.screen = "inventory"
    /\ \E it \in Range(character[1].items), quantity \in 1..MaxQuantity :
        dropItem(it.id, quantity)

----------------------------------------------------------------------------
\* Spec: a session on the travel map, the missions and the skill tree

Next ==
    \/ handleCharacterSelect
    \/ Navigate
    \/ handleCityClick
    \/ reloadPage
    \/ setFilterDifficulty
    \/ handleMissionSelect
    \/ cancelMission
    \/ attemptMission
    \/ reloadTimer
    \/ continueMission
    \/ clickUpgrade

Spec == Init /\ [][Next]_vars

----------------------------------------------------------------------------
\* SpecTrade: a session on the streets and in the inventory

InitTrade ==
    /\ roster \in {<<s>> : s \in SavedCharacters}
    /\ stored = Null
    /\ character = Null
    /\ ui = Mounted("characters", Null)
    /\ pending = <<>>
    /\ alertMsg = None
    /\ budget = MaxTrades

NextTrade ==
    \/ handleCharacterSelect
    \/ NavigateTrade
    \/ EnterStreets
    \/ handleNpcSelect
    \/ Streets_handleItemSelect
    \/ decreaseQuantity
    \/ increaseQuantity
    \/ cancelTransaction
    \/ clickProcess
    \/ setFilterType
    \/ Inventory_handleItemSelect
    \/ closeItemModal
    \/ clickUse
    \/ clickDrop

SpecTrade == InitTrade /\ [][NextTrade]_vars

----------------------------------------------------------------------------
\* SpecStock: one character trading with the one NPC of its city and using and
\* dropping what it holds, several times in a row

\* A saved game in Puerto Vallarta, loaded by App.checkAuthState: little cash,
\* worn down, one energy drink held
InitStock ==
    LET ch == [Character(1, Rico, "Puerto Vallarta", 0, 120, 40, 60, Skills(1, 1, 1, 1))
                  EXCEPT !.items = <<Held("energy-drink", 1)>>]
    IN  /\ roster = <<ch>>
        /\ stored = Some(ch)
        /\ character = Some(ch)
        /\ ui = Mounted("menu", Some(ch))
        /\ pending = <<>>
        /\ alertMsg = None
        /\ budget = MaxStock

NextStock ==
    \/ NavigateTrade
    \/ EnterStreets
    \/ handleNpcSelect
    \/ Streets_handleItemSelect
    \/ decreaseQuantity
    \/ increaseQuantity
    \/ cancelTransaction
    \/ clickProcess
    \/ setFilterType
    \/ Inventory_handleItemSelect
    \/ closeItemModal
    \/ clickUse
    \/ clickDrop

SpecStock == InitStock /\ [][NextStock]_vars

----------------------------------------------------------------------------
\* SpecQuote: trades on the streets of a city under the quotes of one mount

\* One unit each of two items the city's NPCs stock
StockOf(loc) ==
    CASE loc = "New York"        -> <<Held("ecstasy", 1), Held("burner-phone", 1)>>
      [] loc = "Juarez"          -> <<Held("knife", 1), Held("steroids", 1)>>
      [] loc = "Puerto Vallarta" -> <<Held("energy-drink", 1), Held("ecstasy", 1)>>

\* Saved games with cash 300 and the city's StockOf: in a city with two NPCs that
\* stock a common item, and in the two cities whose one NPC has the narrowest
\* and a middling spread between its multipliers
QuoteCharacters ==
    {[Character(1, Rico, loc, 0, 300, 100, 100, Skills(1, 1, 1, 1))
        EXCEPT !.items = StockOf(loc)] : loc \in {"New York", "Juarez", "Puerto Vallarta"}}

\* Streets mounted for one of the characters, its quotes drawn
InitQuote ==
    /\ \E ch \in QuoteCharacters :
        /\ roster = <<ch>>
        /\ stored = Some(ch)
        /\ character = Some(ch)
        /\ \E d \in FluctuationDraws(ch.location) :
            ui = [screen |-> "streets", npcs |-> loadLocationNpcs(ch.location, d),
                  selectedNpc |-> None, selectedItem |-> None, transactionType |-> "buy",
                  quantity |-> 1, showTransaction |-> FALSE, isProcessing |-> FALSE,
               given |-> Null]
    /\ pending = <<>>
    /\ alertMsg = None
    /\ budget = MaxStock

NextQuote ==
    \/ handleNpcSelect
    \/ Streets_handleItemSelect
    \/ decreaseQuantity
    \/ increaseQuantity
    \/ cancelTransaction
    \/ clickProcess

SpecQuote == InitQuote /\ [][NextQuote]_vars

----------------------------------------------------------------------------
\* SpecAccount: an account's character list, with creations and deletions, and
\* the missions of the character selected from it

\* An account with two saved games, loaded by CharacterSelect.loadCharacters:
\* one that has been played and one as createCharacter left it
InitAccount ==
    /\ roster = << Character(1, Rico, "Los Angeles", 0, 1000, 100, 100, Skills(3, 1, 2, 1)),
                   Character(2, <<"A", "n", "a">>, "Miami", 0, 1000, 100, 100, Skills(1, 1, 1, 1)) >>
    /\ stored = Null
    /\ character = Null
    /\ ui = Mounted("characters", Null)
    /\ pending = <<>>
    /\ alertMsg = None
    /\ budget = MaxAccount

NavigateAccount == NavigateTo({"characters", "missions"})

NextAccount ==
    \/ submitCreateForm
    \/ confirmDelete
    \/ handleCharacterSelect
    \/ NavigateAccount
    \/ handleMissionSelect
    \/ cancelMission
    \/ attemptMission
    \/ reloadTimer
    \/ continueMission

SpecAccount == InitAccount /\ [][NextAccount]_vars

----------------------------------------------------------------------------
\* SpecHandlers: each handler that changes the character, called on a component
\* state its screen can set; one change of the character per behaviour

\* Saved characters the handlers are called on: the one createCharacter builds, the
\* spec's scenario characters, and ones at the ends of the ranges.
HandlerCharacters ==
    { Character(1, Rico, "Los Angeles", 0, 1000, 100, 100, Skills(1, 1, 1, 1)),
      Character(1, Rico, "Los Angeles", 0, 1000, 100, 100, Skills(3, 1, 2, 1)),
      Character(1, Rico, "Miami", 200, 100, 100, 100, Skills(1, 1, 1, 1)),
      Character(1, Rico, "Juarez", 149, 0, 0, 0, Skills(4, 2, 5, 4)),
      [Character(1, Rico, "Tijuana", 150, 250, 10, 14, Skills(3, 1, 2, 1))
          EXCEPT !.items = <<Held("health-kit", 1), Held("knife", 1)>>],
      [Character(1, Rico, "Los Angeles", 300000, 50, 60, 90, Skills(20, 20, 19, 20))
          EXCEPT !.items = <<Held("health-kit", 2), Held("energy-drink", 1),
                             Held("steroids", 1), Held("marijuana", 3)>>,
                 !.completedMissions = <<"delivery-1">>],
      [Character(1, Rico, "New York", 340000, 0, 100, 100, Skills(20, 1, 1, 1))
          EXCEPT !.items = <<Held("lockpicks", 1), Held("energy-drink", 1)>>] }

\* The travel screen as handleCityClick sets it
TravelModals(ch) ==
    {[Mounted("travel", Some(ch)) EXCEPT !.selectedCity = c, !.showConfirmation = TRUE] :
        c \in CityNames \ {ch.location}}

\* The missions screen as handleMissionSelect sets it, for any mission of the catalog
MissionModals(ch) ==
    {[Mounted("missions", Some(ch)) EXCEPT !.selectedMission = m, !.showConfirmation = TRUE] :
        m \in MissionIds}

\* The streets screen with the transaction modal open on any stocked item, either
\* type and any quantity, under each draw of the quotes
TransactionModals(ch) ==
    {[screen |-> "streets", npcs |-> loadLocationNpcs(ch.location, d),
      selectedNpc |-> p[1], selectedItem |-> p[2], transactionType |-> t,
      quantity |-> q, showTransaction |-> TRUE, isProcessing |-> FALSE,
               given |-> Null] :
        d \in FluctuationDraws(ch.location), p \in Stocked(ch.location),
        t \in {"buy", "sell"}, q \in 1..MaxQuantity}

InitHandlers ==
    /\ \E ch \in HandlerCharacters :
        /\ roster = <<ch>>
        /\ stored = Some(ch)
        /\ character = Some(ch)
        /\ \/ ui \in TravelModals(ch)
           \/ ui \in MissionModals(ch)
           \/ ui = Mounted("skills", Some(ch))
           \/ ui \in TransactionModals(ch)
           \/ ui = Mounted("inventory", Some(ch))
           \/ ui = Mounted("characters", Some(ch))
    /\ pending = <<>>
    /\ alertMsg = None
    /\ budget = 1

NextHandlers ==
    \/ confirmTravel
    \/ cancelTravel
    \/ attemptMission
    \/ callUpgradeSkill
    \/ processTransaction
    \/ callUseItem
    \/ callDropItem
    \/ submitCreateForm

SpecHandlers == InitHandlers /\ [][NextHandlers]_vars

----------------------------------------------------------------------------
\* SpecRate: the skill tree walked through every assignment of skill levels

RECURSIVE SumCosts(_)
\* What the upgrades from level 1 to level n + 1 of one skill cost
SumCosts(n) == IF n = 0 THEN 0 ELSE getUpgradeCost(n) + SumCosts(n - 1)

\* A saved game with the xp to buy every level of every skill
InitRate ==
    LET ch == Character(1, Rico, "Los Angeles",
                        Cardinality(SkillNames) * SumCosts(MaxSkillLevel - 1),
                        1000, 100, 100, Skills(1, 1, 1, 1))
    IN  /\ roster = <<ch>>
        /\ stored = Some(ch)
        /\ character = Some(ch)
        /\ ui = Mounted("skills", Some(ch))
        /\ pending = <<>>
        /\ alertMsg = None
        /\ budget = Cardinality(SkillNames) * (MaxSkillLevel - 1)

NextRate == clickUpgrade

SpecRate == InitRate /\ [][NextRate]_vars

----------------------------------------------------------------------------
\* Properties

\* C1: in every state the handlers reach -- travel, a mission attempt won or lost,
\* buy, sell, item use, item drop, skill upgrade -- health is within 0..100 and
\* stamina is within 0..100, in memory and in storage.
C1_VitalsInRange ==
    /\ character # Null =>
        character[1].health \in 0..100 /\ character[1].stamina \in 0..100
    /\ stored # Null =>
        stored[1].health \in 0..100 /\ stored[1].stamina \in 0..100

\* A health kit used at health 60: 110 is capped at 100 (the roster entry still
\* holds the character the handler was called on).
C1_Witness ==
    /\ alertMsg = "Used"
    /\ roster[1].health = 60
    /\ getPlayerItemQuantity(roster[1], "health-kit")
            = getPlayerItemQuantity(character[1], "health-kit") + 1
    /\ character[1].health = 100

\* C2: in every state the handlers reach, cash >= 0 and xp >= 0, in memory and in
\* storage: travel and buy are refused when they would overdraw cash, a failed
\* mission clamps cash at 0, an upgrade is refused when it would overdraw xp.
C2_CashAndXpNonNegative ==
    /\ character # Null => character[1].cash >= 0 /\ character[1].xp >= 0
    /\ stored # Null => stored[1].cash >= 0 /\ stored[1].xp >= 0

\* A failed mission whose cash consequence exceeds the cash held: cash is 0.
C2_Witness ==
    /\ ui.screen = "missions"
    /\ ui.missionResult # Null
    /\ ~ui.missionResult[1].success
    /\ roster[1].cash > 0
    /\ roster[1].cash + missionDatabase[ui.missionResult[1].mission].failureConsequences.cash < 0
    /\ character[1].cash = 0

\* C3: confirmTravel with cash < travelCost raises the cash error, and with enough
\* cash but stamina < staminaCost the stamina error, a different one; either way
\* the character in memory, the character in storage, the roster and the travel
\* screen (its modal still open on the same city) are unchanged, so that the same
\* click gives the same result again.
C3_TravelRejected ==
    [][confirmTravel =>
        LET ch == character[1]
            city == cities[ui.selectedCity]
            cashError == "Not enough cash for this trip!"
            staminaError == "Not enough stamina for this trip!"
        IN  /\ cashError # staminaError
            /\ ch.cash < city.travelCost =>
                /\ alertMsg' = cashError
                /\ UNCHANGED <<roster, stored, character, ui, pending>>
            /\ (ch.cash >= city.travelCost /\ ch.stamina < city.staminaCost) =>
                /\ alertMsg' = staminaError
                /\ UNCHANGED <<roster, stored, character, ui, pending>>]_vars

\* The spec's scenario: cash 100, a city costing 200, the cash error on screen.
C3_Witness ==
    /\ ui.screen = "travel"
    /\ ui.showConfirmation
    /\ alertMsg = "Not enough cash for this trip!"
    /\ character[1].cash = 100
    /\ cities[ui.selectedCity].travelCost = 200
    /\ character[1] = roster[1]
    /\ stored = character

\* C4: confirmTravel with cash >= travelCost and stamina >= staminaCost sets location
\* to the chosen city, takes exactly travelCost from cash and exactly staminaCost
\* from stamina, and leaves every other field of the character as it was; storage
\* holds the same character.
C4_TravelEffect ==
    [][(/\ confirmTravel
        /\ character[1].cash >= cities[ui.selectedCity].travelCost
        /\ character[1].stamina >= cities[ui.selectedCity].staminaCost) =>
        LET ch == character[1]
            city == ui.selectedCity
        IN  /\ character' = Some([ch EXCEPT !.location = city,
                                            !.cash = ch.cash - cities[city].travelCost,
                                            !.stamina = ch.stamina - cities[city].staminaCost])
            /\ character'[1].health = ch.health
            /\ character'[1].xp = ch.xp
            /\ character'[1].skills = ch.skills
            /\ character'[1].items = ch.items
            /\ character'[1].completedMissions = ch.completedMissions
            /\ stored' = character']_vars

\* The worn character of the roster after Tijuana -> Juarez: 250 - 180 cash,
\* 14 - 14 stamina, its items still held.
C4_Witness ==
    /\ ui.screen = "travel"
    /\ roster[1].location = "Tijuana"
    /\ character[1] = [roster[1] EXCEPT !.location = "Juarez", !.cash = 70, !.stamina = 0]
    /\ character[1].items # <<>>
    /\ stored = character

\* C5: for every mission of the catalog and every assignment of skill levels in
\* 1..20, calculateSuccessRate lies in [0.10, 0.95].
C5_RateWithinClamp ==
    character # Null =>
        \A m \in MissionIds :
            /\ \A k \in SkillNames : character[1].skills[k] \in 1..MaxSkillLevel
            /\ 10 * RateDen(m) <= 100 * calculateSuccessRate(m, character[1].skills)
            /\ 100 * calculateSuccessRate(m, character[1].skills) <= 95 * RateDen(m)

\* Skills {3, 1, 2, 1}: delivery-1 computes 1.12 and is held at 0.95, cartel-meeting-1
\* computes 7/88 and is held at 0.10.
C5_Witness ==
    /\ character[1].skills = Skills(3, 1, 2, 1)
    /\ 100 * adjustedRate("delivery-1", character[1].skills) = 112 * RateDen("delivery-1")
    /\ 100 * calculateSuccessRate("delivery-1", character[1].skills) = 95 * RateDen("delivery-1")
    /\ 100 * adjustedRate("cartel-meeting-1", character[1].skills)
            < 10 * RateDen("cartel-meeting-1")
    /\ 100 * calculateSuccessRate("cartel-meeting-1", character[1].skills)
            = 10 * RateDen("cartel-meeting-1")

\* C6: a step that raises one skill by a level and leaves the other three alone
\* lowers calculateSuccessRate for no mission of the catalog.
C6_RateMonotone ==
    [][(\E k \in SkillNames :
            character'[1].skills = [character[1].skills EXCEPT ![k] = @ + 1]) =>
        \A m \in MissionIds :
            calculateSuccessRate(m, character'[1].skills)
                >= calculateSuccessRate(m, character[1].skills)]_vars

\* After the first upgrade of strength, street-racing-1 is likelier than it was at
\* the levels the roster started with.
C6_Witness ==
    /\ ui.screen = "skills"
    /\ character[1].skills = Skills(2, 1, 1, 1)
    /\ calculateSuccessRate("street-racing-1", Skills(2, 1, 1, 1))
            > calculateSuccessRate("street-racing-1", Skills(1, 1, 1, 1))

\* C7: attemptMission succeeds exactly when the draw is <= calculateSuccessRate; on
\* success cash grows by rewards.cash, xp by rewards.xp, the mission id is appended
\* to completedMissions and every other field of the character is as it was.
C7_MissionSuccess ==
    [][(/\ ui.screen = "missions" /\ ui.missionResult = Null
        /\ ui'.screen = "missions" /\ ui'.missionResult # Null) =>
        LET ch == character[1]
            result == ui'.missionResult[1]
            m == result.mission
        IN  /\ m = ui.selectedMission
            /\ result.success <=>
                    result.randomRoll * RateDen(m)
                        <= calculateSuccessRate(m, ch.skills) * RollSteps
            /\ result.success =>
                /\ character' = Some([ch EXCEPT
                        !.cash = ch.cash + missionDatabase[m].rewards.cash,
                        !.xp = ch.xp + missionDatabase[m].rewards.xp,
                        !.completedMissions = Append(ch.completedMissions, m)])
                /\ character'[1].health = ch.health
                /\ character'[1].stamina = ch.stamina
                /\ character'[1].skills = ch.skills
                /\ character'[1].items = ch.items
                /\ character'[1].location = ch.location
                /\ stored' = character']_vars

\* The spec's example: skills {3, 1, 2, 1}, cash 1000, delivery-1, draw 0.5:
\* probability 0.95, success, cash 1500, xp 50, delivery-1 completed.
C7_Witness ==
    /\ roster[1].skills = Skills(3, 1, 2, 1)
    /\ roster[1].cash = 1000
    /\ ui.screen = "missions"
    /\ ui.missionResult # Null
    /\ ui.missionResult[1].mission = "delivery-1"
    /\ 2 * ui.missionResult[1].randomRoll = RollSteps
    /\ 100 * calculateSuccessRate("delivery-1", roster[1].skills) = 95 * RateDen("delivery-1")
    /\ ui.missionResult[1].success
    /\ character[1] = [roster[1] EXCEPT !.cash = 1500, !.xp = 50,
                                        !.completedMissions = <<"delivery-1">>]

\* C8: on a failed attempt health, stamina and cash each become
\* max(0, old + the mission's consequence), a field the mission names no consequence
\* for keeping its value; xp, skills, inventory, location and completedMissions are
\* as they were, and a mission that was attemptable is still offered with its
\* requirements met.
C8_MissionFailure ==
    [][(/\ ui.screen = "missions" /\ ui.missionResult = Null
        /\ ui'.screen = "missions" /\ ui'.missionResult # Null
        /\ ~ui'.missionResult[1].success) =>
        LET ch == character[1]
            m == ui.selectedMission
            c == missionDatabase[m].failureConsequences
        IN  /\ character' = Some([ch EXCEPT !.health = Max(0, ch.health + c.health),
                                            !.stamina = Max(0, ch.stamina + c.stamina),
                                            !.cash = Max(0, ch.cash + c.cash)])
            /\ c.health = 0 => character'[1].health = ch.health
            /\ c.stamina = 0 => character'[1].stamina = ch.stamina
            /\ c.cash = 0 => character'[1].cash = ch.cash
            /\ character'[1].xp = ch.xp
            /\ character'[1].skills = ch.skills
            /\ character'[1].items = ch.items
            /\ character'[1].location = ch.location
            /\ character'[1].completedMissions = ch.completedMissions
            /\ stored' = character'
            /\ (m \in ui.availableMissions /\ meetsRequirements(m, ch.skills)) =>
                (m \in ui'.availableMissions /\ meetsRequirements(m, character'[1].skills))]_vars

\* smuggling-1 failed in Tijuana at health 10 and cash 250: -25 and -300 end at 0,
\* stamina, which the mission names no consequence for, is still 14, and the mission
\* is still offered.
C8_Witness ==
    /\ ui.screen = "missions"
    /\ ui.missionResult # Null
    /\ ui.missionResult[1].mission = "smuggling-1"
    /\ ~ui.missionResult[1].success
    /\ roster[1].health = 10 /\ roster[1].cash = 250 /\ roster[1].stamina = 14
    /\ character[1] = [roster[1] EXCEPT !.health = 0, !.cash = 0]
    /\ "smuggling-1" \in ui.availableMissions

\* C9: every attempt is of a mission whose requirements the character's skills
\* meet, that is bound to the character's city or to 'Any', and that is not in the
\* character's completedMissions.
C9_AttemptOnlyEligible ==
    [][(/\ ui.screen = "missions" /\ ui.missionResult = Null
        /\ ui'.screen = "missions" /\ ui'.missionResult # Null) =>
        LET ch == character[1]
            m == ui.selectedMission
        IN  /\ meetsRequirements(m, ch.skills)
            /\ missionDatabase[m].location \in {"Any", ch.location}
            /\ ~Includes(ch.completedMissions, m)]_vars

\* C10: a mission in the character's completedMissions stays there and is not
\* offered on the missions screen after any later step.
C10_CompletedNeverOffered ==
    [][(character # Null /\ character' # Null) =>
        \A m \in MissionIds :
            Includes(character[1].completedMissions, m) =>
                /\ Includes(character'[1].completedMissions, m)
                /\ ui'.screen = "missions" => m \notin ui'.availableMissions]_vars

\* C11: an upgrade of a skill with xp below the skill's upgrade cost, or of a skill
\* at level 20 or above, is refused with a message and changes nothing: the
\* character in memory, the stored current character and the roster stay as they
\* were. Said of every step on the skills screen: a refusal leaves the three
\* alone, and the character changes only by the upgrade of a skill that has the
\* xp for it and is below 20.
C11_UpgradeRejected ==
    [][ (ui.screen = "skills" /\ character # Null) =>
          LET ch == character[1]
              barred(s) == ch.xp < getUpgradeCost(ch.skills[s]) \/ ch.skills[s] >= 20
          IN  /\ alertMsg' \in {"Not enough XP to upgrade this skill!",
                                "This skill is already at maximum level!"}
                    => UNCHANGED <<character, stored, roster>>
              /\ (\A s \in SkillNames : barred(s))
                    => UNCHANGED <<character, stored, roster>>
              /\ ~UNCHANGED <<character, stored, roster>>
                    => \E s \in SkillNames :
                          /\ ~barred(s)
                          /\ character' = Some(upgraded(ch, s))
                          /\ \A t \in SkillNames :
                                barred(t) => character'[1].skills[t] = ch.skills[t] ]_vars

\* An upgrade of a level-20 skill, with the xp for a twenty-first level, refused.
C11_Witness ==
    /\ ui.screen = "skills"
    /\ alertMsg = "This skill is already at maximum level!"
    /\ character = Some(roster[1])
    /\ stored = character
    /\ \E s \in SkillNames :
          /\ character[1].skills[s] = 20
          /\ character[1].xp >= getUpgradeCost(20)

\* C12: an upgrade that goes through takes exactly the upgrade cost of the skill's
\* level from xp, raises that skill by exactly 1 and leaves the other three skills,
\* cash, health, stamina, location, inventory and completed missions as they
\* were, in memory and in storage; strength at level 1 with xp 200 gives xp 50 and
\* strength 2.
C12_UpgradeEffect ==
    [][ (ui.screen = "skills" /\ character # Null /\ character' # character) =>
          LET ch == character[1]
              up == character'[1]
          IN  /\ character' # Null
              /\ stored' = character'
              /\ \E s \in SkillNames :
                    /\ up.xp = ch.xp - getUpgradeCost(ch.skills[s])
                    /\ up.skills[s] = ch.skills[s] + 1
                    /\ \A t \in SkillNames \ {s} : up.skills[t] = ch.skills[t]
                    /\ (s = "strength" /\ ch.skills[s] = 1 /\ ch.xp = 200)
                          => (up.xp = 50 /\ up.skills[s] = 2)
              /\ up.cash = ch.cash
              /\ up.health = ch.health
              /\ up.stamina = ch.stamina
              /\ up.location = ch.location
              /\ up.items = ch.items
              /\ up.completedMissions = ch.completedMissions
              /\ up.id = ch.id /\ up.name = ch.name ]_vars

\* The scenario's upgrade done: strength 2 and xp 50 left of 200.
C12_Witness ==
    /\ ui.screen = "skills"
    /\ alertMsg = None
    /\ budget = 0
    /\ character # Null
    /\ character[1].skills = Skills(2, 1, 1, 1)
    /\ character[1].xp = 50
    /\ stored = character
    /\ roster = <<character[1]>>

\* C13: in every reachable state each of the four skills has an integer level in
\* 1..20, in memory, in the stored current character and in the roster; upgrades
\* never take a skill above 20.
C13_SkillLevelsInRange ==
    LET inRange(ch) ==
            /\ DOMAIN ch.skills = SkillNames
            /\ \A s \in SkillNames : ch.skills[s] \in 1..20
    IN  /\ character # Null => inRange(character[1])
        /\ stored # Null => inRange(stored[1])
        /\ \A i \in 1..Len(roster) : inRange(roster[i])

\* The last skill below the maximum raised to it: all four at 20.
C13_Witness ==
    /\ ui.screen = "skills"
    /\ budget = 0
    /\ alertMsg = None
    /\ character # Null
    /\ \A s \in SkillNames : character[1].skills[s] = 20
    /\ character[1].xp = 300000 - getUpgradeCost(19)

\* C14: the upgrade cost is strictly increasing in the level: for every level n in
\* 1..19 a skill of the character holds, the cost at n + 1 is above the cost at n.
C14_CostStrictlyIncreasing ==
    character # Null =>
        \A s \in SkillNames :
            LET n == character[1].skills[s]
            IN  n \in 1..19 => getUpgradeCost(n + 1) > getUpgradeCost(n)

\* A skill bought up to 19 while another is still at 1: the costs compared are
\* 150 < 225 at one end and 221683 < 332525 at the other.
C14_Witness ==
    /\ ui.screen = "skills"
    /\ character # Null
    /\ character[1].skills["strength"] = 19
    /\ character[1].skills["shooting"] = 1
    /\ character[1].xp = roster[1].xp
    /\ getUpgradeCost(1) = 150 /\ getUpgradeCost(2) = 225
    /\ getUpgradeCost(19) = 221683 /\ getUpgradeCost(20) = 332525

\* The level the xp stands for: calculateLevel of HUD, MainMenu and CharacterSelect
calculateLevel(xp) == xp \div 100 + 1

\* C15: the level the character carries, which the skill tree's overview shows,
\* equals floor(xp / 100) + 1 in every reachable state; said of every step: a
\* character whose level matches its xp still has a matching level after a
\* mission reward has raised the xp or an upgrade has spent it.
C15_LevelFollowsXp ==
    [][ (/\ character # Null /\ character' # Null
         /\ character[1].level = calculateLevel(character[1].xp))
          => character'[1].level = calculateLevel(character'[1].xp) ]_vars

\* C16: in every state reached by buying, selling, using and dropping, the
\* inventory holds at most one entry per item id and every entry has a quantity
\* of at least 1, in memory and in storage.
C16_InventoryWellFormed ==
    LET wellFormed(items) ==
            /\ \A j, k \in 1..Len(items) : items[j].id = items[k].id => j = k
            /\ \A k \in 1..Len(items) : items[k].quantity >= 1
    IN  /\ character # Null => wellFormed(character[1].items)
        /\ stored # Null => wellFormed(stored[1].items)

\* The energy drink held at the start bought again and then sold off or used up
\* or dropped: the one entry went to quantity 2 and then left the inventory.
C16_Witness ==
    /\ budget = 0
    /\ roster[1].items = <<Held("energy-drink", 1)>>
    /\ character # Null
    /\ character[1].items = <<>>
    /\ character[1].cash < roster[1].cash

C18_OnlyConsumablesUsed ==
    [][ (ui.screen = "inventory" /\ character # Null) =>
          LET ch == character[1]
              held(c, itemId) == getPlayerItemQuantity(c, itemId)
          IN  /\ alertMsg' = "This item cannot be used"
                    => UNCHANGED <<character, stored, roster>>
              /\ alertMsg' = "Used"
                    => /\ \E itemId \in ItemIds :
                            /\ itemDatabase[itemId].type = "consumable"
                            /\ held(ch, itemId) >= 1
                            /\ held(character'[1], itemId) = held(ch, itemId) - 1
                       /\ \A itemId \in ItemIds :
                            itemDatabase[itemId].type # "consumable"
                                => held(character'[1], itemId) = held(ch, itemId)
              /\ (\A k \in 1..Len(ch.items) : itemDatabase[ch.items[k].id].type # "consumable")
                    => /\ alertMsg' # "Used"
                       /\ character'[1].health = ch.health
                       /\ character'[1].stamina = ch.stamina ]_vars

\* A use of a drug, a weapon or a piece of equipment refused: the character, worn
\* down and holding the item, is as it was.
C18_Witness ==
    /\ ui.screen = "inventory"
    /\ alertMsg = "This item cannot be used"
    /\ character = Some(roster[1])
    /\ stored = character
    /\ character[1].health < 100
    /\ \E k \in 1..Len(character[1].items) :
          itemDatabase[character[1].items[k].id].type \in {"drug", "weapon", "equipment"}

\* C19: a trade is all-or-nothing. A buy whose total, the quoted buy price times
\* the quantity, exceeds cash and a sell of more units than are held are refused
\* and change neither cash nor inventory; a buy that is done lowers cash by
\* exactly buy price * quantity and raises the quantity held by exactly quantity,
\* a sell that is done raises cash by exactly sell price * quantity and lowers the
\* quantity held by exactly quantity; nothing else of the character changes.
C19_TradeAllOrNothing ==
    [][ (ui.screen = "streets" /\ TransactionModalOpen /\ character # Null) =>
          LET ch == character[1]
              itemId == ui.selectedItem
              q == ui.quantity
              held(c, i) == getPlayerItemQuantity(c, i)
              buying == ui.transactionType = "buy"
              refused == \/ buying /\ Quote.buy * q > ch.cash
                         \/ ~buying /\ q > held(ch, itemId)
              rest(c) == [c EXCEPT !.cash = 0, !.items = <<>>]
          IN  /\ refused => UNCHANGED <<character, stored, roster>>
              /\ character' # character =>
                    /\ ~refused
                    /\ stored' = character'
                    /\ character'[1].cash =
                          IF buying THEN ch.cash - Quote.buy * q ELSE ch.cash + Quote.sell * q
                    /\ held(character'[1], itemId) =
                          IF buying THEN held(ch, itemId) + q ELSE held(ch, itemId) - q
                    /\ \A i \in ItemIds \ {itemId} : held(character'[1], i) = held(ch, i)
                    /\ rest(character'[1]) = rest(ch) ]_vars

\* Two of three units held sold: cash is up by twice the quoted sell price and
\* one unit is left (the roster entry still holds the character before the sale).
C19_Witness ==
    /\ ui.screen = "streets"
    /\ alertMsg = "Sold"
    /\ ui.quantity = 2
    /\ getPlayerItemQuantity(roster[1], "marijuana") = 3
    /\ getPlayerItemQuantity(character[1], "marijuana") = 1
    /\ character[1].cash = roster[1].cash + 2 * ui.npcs[ui.selectedNpc]["marijuana"].sell
    /\ stored = character

\* The order of the two prices of a quote for every NPC, every item it stocks and
\* every fluctuation from 0.800 to 1.299 in thousandths
SellAtMostBuyOnGrid ==
    \A n \in NpcIds : \A i \in npcDatabase[n].inventory : \A f \in 800..1299 :
        LET price == generateDynamicPrices(n, [j \in npcDatabase[n].inventory |-> f])[i]
        IN  price.sell <= price.buy /\ price.sell >= 1

\* C20: for every NPC and every item it stocks the quoted sell price is at most
\* the quoted buy price, and no sequence of buys and sells under the quotes of one
\* mount of the streets ends with the inventory it started with and more cash
\* (the roster entry holds the character the trades started from).
C20_NoGainUnderOneQuote ==
    (ui.screen = "streets" /\ character # Null) =>
        /\ SellAtMostBuyOnGrid
        /\ \A n \in DOMAIN ui.npcs : \A i \in DOMAIN ui.npcs[n] :
                ui.npcs[n][i].sell <= ui.npcs[n][i].buy
        /\ (\A i \in ItemIds : getPlayerItemQuantity(character[1], i)
                                    = getPlayerItemQuantity(roster[1], i))
                => character[1].cash <= roster[1].cash

\* A unit sold and bought back from the same NPC at the same quote: the inventory
\* holds what it held and cash is down by the spread.
C20_Witness ==
    /\ ui.screen = "streets"
    /\ budget = 0
    /\ alertMsg = "Bought"
    /\ ui.selectedNpc # None
    /\ \A i \in ItemIds : getPlayerItemQuantity(character[1], i)
                                = getPlayerItemQuantity(roster[1], i)
    /\ character[1].items # roster[1].items
    /\ \E i \in DOMAIN ui.npcs[ui.selectedNpc] :
          /\ getPlayerItemQuantity(roster[1], i) = 1
          /\ ui.npcs[ui.selectedNpc][i].sell < ui.npcs[ui.selectedNpc][i].buy
          /\ character[1].cash = roster[1].cash - (ui.npcs[ui.selectedNpc][i].buy
                                                    - ui.npcs[ui.selectedNpc][i].sell)

C22_GivenSnapshotUntouched ==
    [][ (/\ character # Null
         /\ ui.screen \in {"streets", "inventory"}
         /\ ui'.screen = ui.screen
         /\ ui'.given # Null)
          => /\ ui'.given = character
             /\ character' # character ]_vars

-----------------------------------------------------------------------------
\* C23: an account never holds more than three characters, whatever creations
\* and deletions are made, and a creation attempted while three are held leaves
\* the list as it was.
C23_AtMostThreeCharacters ==
    [][ /\ Len(roster') <= 3
        /\ (Len(roster) = 3 /\ Len(roster') >= 3) => roster' = roster ]_vars

\* A creation has been refused for the limit, with three characters held, one of
\* them created in this session
C23_Witness ==
    /\ ui.screen = "characters"
    /\ Len(roster) = 3
    /\ budget < MaxAccount
    /\ ui.error = "Maximum of 3 characters allowed per account"

-----------------------------------------------------------------------------
\* C24: the game saves itself: every travel, purchase, sale, mission attempt, item
\* use, item drop and skill upgrade that changes the character in memory, or what
\* is kept under currentCharacter, ends with the two equal.
C24_SavedAfterEveryAction ==
    [][ (character' # character \/ stored' # stored)
          => /\ character' # Null
             /\ stored' = character' ]_vars

\* An item has been dropped from the inventory and the character kept in storage
\* is the one without it
C24_Witness ==
    /\ ui.screen = "inventory"
    /\ budget = 0
    /\ \E it \in Range(roster[1].items) : alertMsg = droppedMessage(it.id, 1)
    /\ character[1].items # roster[1].items
    /\ stored = character

-----------------------------------------------------------------------------
\* C25: every character, listed, selected or kept in storage, is located in one of
\* the six cities of the travel catalog; a character is given its location when it
\* is created and changes it only by travelling, to the city chosen on the map.
C25_LocationInCatalog ==
    [][ /\ \A ch \in Range(roster') \cup Range(character') \cup Range(stored') :
              ch.location \in CityNames
        /\ \A i \in 1..Len(roster), j \in 1..Len(roster') :
              roster'[j].id = roster[i].id => roster'[j].location = roster[i].location
        /\ (/\ character # Null
            /\ character' # Null
            /\ character'[1].id = character[1].id
            /\ character'[1].location # character[1].location)
              => /\ ui.screen = "travel"
                 /\ character'[1].location = ui.selectedCity ]_vars

\* A character has been created in a city other than the one the form starts with
C25_Witness ==
    /\ ui.screen = "characters"
    /\ Len(roster) = 2
    /\ roster[2].location = "Puerto Vallarta"
    /\ roster[2].cash = 1000

-----------------------------------------------------------------------------
\* C26: the entry of the selected character in the account's saved list is the
\* character as the last action left it, so selecting it again from the list
\* resumes from that state.
C26_ListEntryIsLatest ==
    character # Null =>
        \A i \in 1..Len(roster) :
            roster[i].id = character[1].id => roster[i] = character[1]

-----------------------------------------------------------------------------
\* C27: a deleted character is gone: the character selected in memory and the one
\* kept under currentCharacter are always characters of the account's list, so
\* nothing can be applied to a deleted character or save it again.
C27_DeletedCharacterGone ==
    \A ch \in Range(character) \cup Range(stored) :
        \E i \in 1..Len(roster) : roster[i].id = ch.id

-----------------------------------------------------------------------------
\* C28: travel goes through a confirmation step. On the travel screen, choosing a
\* city opens the confirmation dialog on a city other than the current location
\* and changes nothing else; from the open dialog, Cancel closes it with the
\* character as it was and Travel closes it, leaves the in-progress flag down and
\* moves the character to the chosen city, which is never the one it was in.
C28_TravelConfirmationFlow ==
    [][ (/\ ui.screen = "travel"
         /\ ui' # ui
         /\ ui'.screen \in {"travel", "error"})
          => /\ ui'.screen = "travel"
             /\ IF ~ui.showConfirmation
                THEN /\ ui'.showConfirmation
                     /\ ui'.selectedCity \in CityNames \ {character[1].location}
                     /\ character' = character
                ELSE /\ ~ui'.showConfirmation
                     /\ ~ui'.isTravel
                     /\ \/ character' = character
                        \/ /\ character'[1].location = ui.selectedCity
                           /\ character'[1].location # character[1].location ]_vars

-----------------------------------------------------------------------------
\* C29: no two characters of an account's list have the same name, letter case
\* set aside, whatever creations and deletions are made.
C29_NamesUnique ==
    \A i, j \in 1..Len(roster) :
        i # j => toLowerCase(roster[i].name) # toLowerCase(roster[j].name)

-----------------------------------------------------------------------------
\* C30: a use that is done takes exactly one unit of one consumable, also when
\* the vital it restores is already 100, and leaves every other entry of the
\* inventory as it was; a health kit sets health to min(100, health + 50) and
\* leaves stamina, an energy drink sets stamina to min(100, stamina + 25) and
\* leaves health, steroids leave both; cash, xp, skills and location are unchanged.
C30_UseEffect ==
    [][ (ui.screen = "inventory" /\ character # Null /\ alertMsg' = "Used") =>
          LET ch == character[1]
              after == character'[1]
              held(c, itemId) == getPlayerItemQuantity(c, itemId)
          IN  /\ \E itemId \in {"health-kit", "energy-drink", "steroids"} :
                    /\ held(ch, itemId) >= 1
                    /\ held(after, itemId) = held(ch, itemId) - 1
                    /\ \A other \in ItemIds \ {itemId} : held(after, other) = held(ch, other)
                    /\ after.health = IF itemId = "health-kit"
                                      THEN (IF ch.health + 50 > 100 THEN 100 ELSE ch.health + 50)
                                      ELSE ch.health
                    /\ after.stamina = IF itemId = "energy-drink"
                                       THEN (IF ch.stamina + 25 > 100 THEN 100 ELSE ch.stamina + 25)
                                       ELSE ch.stamina
              /\ Len(after.items) <= Len(ch.items)
              /\ after.cash = ch.cash
              /\ after.xp = ch.xp
              /\ after.skills = ch.skills
              /\ after.location = ch.location ]_vars

\* An energy drink has been used at stamina 100: the drink is gone and stamina is
\* still 100
C30_Witness ==
    /\ ui.screen = "inventory"
    /\ alertMsg = "Used"
    /\ roster[1].stamina = 100
    /\ getPlayerItemQuantity(roster[1], "energy-drink") = 1
    /\ getPlayerItemQuantity(character[1], "energy-drink") = 0
    /\ character[1].stamina = 100

====
